---- MODULE Spec2Model ----
(***************************************************************************)
(* Model of src/js/ui/mode-transition.js: the visualization renderer       *)
(* EMRenderer (the flow-particle system, the marching-squares iso-contour  *)
(* pass, the render surface with its pointer tracking, the default colour  *)
(* map) and the shutter ModeTransition.                                    *)
(*                                                                         *)
(* Numbers.  JavaScript numbers are modelled exactly, in fixed point:      *)
(*   - a path position p is the integer p * One (One = 10000 stands for    *)
(*     1.0);                                                               *)
(*   - a value returned by Math.random() is given in thousandths;          *)
(*   - a speed s (path units per second) is the integer s * 1000;          *)
(*   - the clock Date.now() is counted in tenths of a second, so that      *)
(*     speed * dt, with dt = (now - lastTime) / 1000 seconds, is the       *)
(*     integer speed * (now - lastTime) in position units.                 *)
(***************************************************************************)
EXTENDS Integers, Sequences, FiniteSets, TLC

VARIABLES
    flowParticles,  \* this.flowParticles: sequence of particles
    lastTime,       \* this.lastTime (tenths of a second)
    animTime,       \* this.animTime (tenths of a second)
    now,            \* the value Date.now() last returned (tenths of a second)
    width,          \* this.width, equal to canvas.width
    height,         \* this.height, equal to canvas.height
    contourLevels,  \* this.contourLevels
    contours,       \* observation: what the last contour pass sampled and put on the canvas
    mouseX,         \* this.mouseX, a fraction
    mouseY,         \* this.mouseY, a fraction
    color,          \* observation: the last call of getScientificColor and what it returned
    simulation,     \* the objects of the physics side the renderer is handed references to
    isTransitioning, \* ModeTransition: this.isTransitioning
    overlay,        \* ModeTransition: the classes in this.overlay.classList
    timers,         \* ModeTransition: the callbacks waiting in setTimeout
    calls,          \* observation: the calls of transition(onMidpoint) made so far
    controls,       \* UIControls: currentMode, the classes of the mode buttons and panels
    sliders,        \* the range inputs of the page, by id, and their upgrade to dials
    dial,           \* a DialSlider: its options, value and isDragging, and its range input
    calipers,       \* a TechnicalCalipers: its scale and canvas, and how far update() has come
    lastCall        \* observation: the method called last, with its argument

flowVars == <<flowParticles, lastTime, animTime, now>>
surfaceVars == <<width, height, contourLevels, contours>>
pointerVars == <<mouseX, mouseY>>
shutterVars == <<isTransitioning, overlay, timers, calls>>
\* what the flow-particle and contour methods neither read nor write
\* the widgets of dial-slider.js
widgetVars == <<sliders, dial, calipers>>
pageVars == <<mouseX, mouseY, color, isTransitioning, overlay, timers, calls,
              controls, widgetVars>>
vars == <<flowParticles, lastTime, animTime, now, width, height, contourLevels,
          contours, mouseX, mouseY, color, simulation, isTransitioning, overlay,
          timers, calls, controls, sliders, dial,
          calipers, lastCall>>

----------------------------------------------------------------------------
(* Bounds of the model *)

\* most ticks one run of TechnicalCalipers.update() is followed for
MaxTicks == 12

\* longest field-line list handed to the renderer while only seeding is explored
MaxLines == 2
\* longest field-line list handed to the renderer while the clock also runs
MaxFlowLines == 1
\* the clock stops advancing here (tenths of a second)
MaxNow == 12

\* largest in-range potential sample
MaxSample == 2
\* largest contourLevels setting tried besides the default
MaxContourLevels == 3
\* calls of ModeTransition.transition followed
MaxCalls == 4

\* 1.0 in position units
One == 10000
\* default of the resolution parameter of drawPotentialContours
Resolution == 8
\* samples are clamped to [-ClampLimit, ClampLimit]
ClampLimit == 1000000
\* contourLevels as the constructor sets it
DefaultContourLevels == 12
\* 0.5, where getScientificColor changes branch, in thousandths
Midpoint == 500

----------------------------------------------------------------------------
(* External data: the field lines supplied by the field-line tracer.  A    *)
(* line is an object; the renderer holds references to it, modelled by its *)
(* index in this table.                                                    *)

\* points.length of each line object
FieldLinePointCount == <<1, 2, 20, 121>>
\* fromPositive of each line object
FieldLineFromPositive == <<TRUE, FALSE, TRUE, FALSE>>

FieldLines == 1..Len(FieldLinePointCount)

RECURSIVE SeqsUpTo(_, _)
SeqsUpTo(S, n) ==
    IF n = 0 THEN {<<>>}
    ELSE LET shorter == SeqsUpTo(S, n - 1)
         IN  shorter \cup {Append(s, x) : s \in shorter, x \in S}

\* the field-line lists a caller may pass
FieldLineLists == SeqsUpTo(FieldLines, MaxLines)
ShortFieldLineLists == SeqsUpTo(FieldLines, MaxFlowLines)

\* elapsed times between two readings of the clock (tenths of a second)
DtValues == {0, 2, 10}

----------------------------------------------------------------------------
(* Math.random(): each call returns the next value of the engine's stream. *)
(* The place of the generator in its stream when a method starts is an     *)
(* input of that method.  Values in thousandths, all in [0, 1).            *)

RandomStream == <<950, 500, 500, 0>>

RandomStarts == 0..(Len(RandomStream) - 1)

MathRandom(cursor) == RandomStream[(cursor % Len(RandomStream)) + 1]

----------------------------------------------------------------------------
(* Flow particles *)

Min(a, b) == IF a < b THEN a ELSE b

\* Math.ceil(n / d) for n >= 0, d > 0
Ceil(n, d) == (n + d - 1) \div d

\* variant: the cap of 8 particles per line left out
ParticleCountUncapped(line) ==
    IF FieldLinePointCount[line] < 2 THEN 0
    ELSE Ceil(FieldLinePointCount[line], 15)

\* particles spawned for one line
ParticleCount(line) ==
    IF FieldLinePointCount[line] < 2 THEN 0
    ELSE Min(8, Ceil(FieldLinePointCount[line], 15))

\* the particle pushed by one iteration of the inner loop
NewParticle(line, cursor) ==
    [ line         |-> line,
      position     |-> MathRandom(cursor) * (One \div 1000),
      speed        |-> 300 + (MathRandom(cursor + 1) * 4) \div 10,
      fromPositive |-> FieldLineFromPositive[line] ]

RECURSIVE SpawnParticles(_, _, _)
SpawnParticles(line, count, cursor) ==
    IF count = 0 THEN <<>>
    ELSE <<NewParticle(line, cursor)>> \o SpawnParticles(line, count - 1, cursor + 2)

\* the pool built by initFlowParticles(fieldLines)
RECURSIVE initFlowParticles(_, _)
initFlowParticles(fieldLines, cursor) ==
    IF fieldLines = <<>> THEN <<>>
    ELSE LET line  == Head(fieldLines)
             count == ParticleCount(line)
         IN  SpawnParticles(line, count, cursor)
                \o initFlowParticles(Tail(fieldLines), cursor + 2 * count)

\* variant: the overshoot kept when the position passes the end of the path
AdvanceParticleWrapping(particle, dt) ==
    LET raw == particle.position + particle.speed * dt
    IN  [particle EXCEPT !.position = IF raw > One THEN raw % One ELSE raw]

\* variant: the end of the path tested with >= instead of >
AdvanceParticleResetAtEnd(particle, dt) ==
    LET raw == particle.position + particle.speed * dt
    IN  [particle EXCEPT !.position = IF raw >= One THEN 0 ELSE raw]

\* one particle after updateFlowParticles(dt); dt in tenths of a second
AdvanceParticle(particle, dt) ==
    LET raw == particle.position + particle.speed * dt
    IN  [particle EXCEPT !.position = IF raw > One THEN 0 ELSE raw]

\* variant: the loop over the pool run a second time
updateFlowParticlesTwice(pool, dt) ==
    [i \in 1..Len(pool) |-> AdvanceParticle(AdvanceParticle(pool[i], dt), dt)]

\* the pool after updateFlowParticles(dt)
updateFlowParticles(pool, dt) ==
    [i \in 1..Len(pool) |-> AdvanceParticle(pool[i], dt)]

\* the draw point of a particle on a line of n points: idx, the index of the
\* point before it (Math.floor), counted from 0
DrawIndex(position, n) == (position * (n - 1)) \div One

\* variant: nextIdx taken without Math.min
NextIndexUnclamped(idx, n) == idx + 1

\* nextIdx, the index of the point after it
NextIndex(idx, n) == Min(idx + 1, n - 1)

\* t, how far the draw point lies from points[idx] towards points[nextIdx], in
\* position units: (position * (n - 1)) % 1
DrawFraction(position, n) == (position * (n - 1)) % One

\* what the dash loop of drawFlowParticles computes for one particle
DrawPoint(particle) ==
    LET n   == FieldLinePointCount[particle.line]
        idx == DrawIndex(particle.position, n)
    IN  [ idx     |-> idx,
          nextIdx |-> NextIndex(idx, n),
          t       |-> DrawFraction(particle.position, n) ]

\* the pool after drawFlowParticles(fieldLines): seeded only when empty
drawFlowParticles(pool, fieldLines, cursor) ==
    IF Len(pool) = 0 /\ Len(fieldLines) > 0
        THEN initFlowParticles(fieldLines, cursor)
        ELSE pool

----------------------------------------------------------------------------
(* Iso-contours (marching squares).                                        *)
(*                                                                         *)
(* Potential samples are integers.  A contour level minV + range*i/N is    *)
(* kept as its numerator minV*N + range*i over the denominator N, and a    *)
(* coordinate as a fraction <<numerator, denominator>> in lowest terms     *)
(* with a positive denominator, so equal points are equal tuples.          *)

Max(a, b) == IF a > b THEN a ELSE b

Abs(a) == IF a < 0 THEN -a ELSE a

RECURSIVE GCD(_, _)
GCD(a, b) == IF b = 0 THEN a ELSE GCD(b, a % b)

\* the number n / d, d # 0
Frac(n, d) ==
    LET g == GCD(Abs(n), Abs(d))
        sign == IF d < 0 THEN -1 ELSE 1
    IN  <<(sign * n) \div g, (sign * d) \div g>>

\* the integer k plus the fraction f
Shift(k, f) == <<k * f[2] + f[1], f[2]>>

\* canvas sizes the application gives the renderer: 1 to 3 columns of samples,
\* 1 or 2 rows
CanvasWidths == {Resolution - 4, 2 * Resolution - 4, 3 * Resolution - 4}
CanvasHeights == {Resolution, 2 * Resolution}

\* values chargeSystem.potentialAt(x, y) may return
Finite(v) == [kind |-> "finite", value |-> v]
NotANumber == [kind |-> "NaN", value |-> 0]
PotentialValues == {Finite(v) : v \in 0..MaxSample} \cup {NotANumber}
\* Infinity and -Infinity: value holds the sign
PlusInfinity == [kind |-> "Infinity", value |-> 1]
MinusInfinity == [kind |-> "Infinity", value |-> -1]
\* the values that are not finite, with one beyond the range of a sample
NonFiniteValues ==
    {NotANumber, PlusInfinity, MinusInfinity, Finite(ClampLimit + 1)}
\* values beyond both ends of the range of a sample, with one inside it
OutOfRangeValues ==
    {Finite(-ClampLimit - 1), Finite(ClampLimit + 1), Finite(1)}

\* variant: only NaN replaced by 0, the test being isNaN; Math.min and Math.max
\* then bring an infinite value to the end of the range
ClampSampleNaNOnly(raw) ==
    LET V == IF raw.kind = "finite" THEN raw.value
             ELSE IF raw.kind = "NaN" THEN 0
             ELSE raw.value * (ClampLimit + 1)
    IN  Max(-ClampLimit, Min(ClampLimit, V))

\* the sample stored in potentialGrid for a value of potentialAt
ClampSample(raw) ==
    LET V == IF raw.kind = "finite" THEN raw.value ELSE 0
    IN  Max(-ClampLimit, Min(ClampLimit, V))

\* potentialGrid[j][i], rows by columns
SampleGrid(field, cols, rows) ==
    [j \in 0..(rows - 1) |-> [i \in 0..(cols - 1) |-> ClampSample(field[<<i, j>>])]]

GridValues(grid) == {grid[j][i] : j \in DOMAIN grid, i \in DOMAIN grid[0]}

SetMin(S) == CHOOSE v \in S : \A w \in S : v <= w
SetMax(S) == CHOOSE v \in S : \A w \in S : v >= w

\* variant: the flat-field return left out
FlatFieldIgnored(minV, maxV) == FALSE

\* the test of the early return
FlatField(minV, maxV) == maxV = minV

\* variant: the level loop started at i = 0
ContourLevelsFromZero(minV, maxV, levelCount) ==
    [i \in 1..levelCount |-> minV * levelCount + (maxV - minV) * (i - 1)]

\* the levels array: numerators over the denominator levelCount
ContourLevels(minV, maxV, levelCount) ==
    [i \in 1..(levelCount - 1) |-> minV * levelCount + (maxV - minV) * i]

\* idx |= bit when the corner value v >= level
CornerBit(v, level, levelCount, bit) ==
    IF v * levelCount >= level THEN bit ELSE 0

\* variant: the bits given to the corners row by row, v01 before v11
TopologyIndexRowByRow(level, levelCount, v00, v10, v01, v11) ==
    CornerBit(v00, level, levelCount, 1) + CornerBit(v10, level, levelCount, 2)
        + CornerBit(v01, level, levelCount, 4) + CornerBit(v11, level, levelCount, 8)

TopologyIndex(level, levelCount, v00, v10, v01, v11) ==
    CornerBit(v00, level, levelCount, 1) + CornerBit(v10, level, levelCount, 2)
        + CornerBit(v11, level, levelCount, 4) + CornerBit(v01, level, levelCount, 8)

\* lerp(0, size, (level - vA) / (vB - vA || 1))
Interpolate(size, level, levelCount, vA, vB) ==
    LET diff == IF vB - vA = 0 THEN 1 ELSE vB - vA
    IN  Frac(size * (level - vA * levelCount), levelCount * diff)

\* the lookup table of drawContourSegment; a segment is <<x1, y1, x2, y2>>
SegmentTable(x, y, size, top, bottom, left, right) ==
    LET X == <<x, 1>>
        Y == <<y, 1>>
        XS == <<x + size, 1>>
        YS == <<y + size, 1>>
        XT == Shift(x, top)
        XB == Shift(x, bottom)
        YL == Shift(y, left)
        YR == Shift(y, right)
    IN  [idx \in 1..14 |->
            CASE idx = 1  -> << <<X, YL, XT, Y>> >>
              [] idx = 2  -> << <<XT, Y, XS, YR>> >>
              [] idx = 3  -> << <<X, YL, XS, YR>> >>
              [] idx = 4  -> << <<XS, YR, XB, YS>> >>
              [] idx = 5  -> << <<X, YL, XT, Y>>, <<XS, YR, XB, YS>> >>
              [] idx = 6  -> << <<XT, Y, XB, YS>> >>
              [] idx = 7  -> << <<X, YL, XB, YS>> >>
              [] idx = 8  -> << <<XB, YS, X, YL>> >>
              [] idx = 9  -> << <<XB, YS, XT, Y>> >>
              [] idx = 10 -> << <<XT, Y, XS, YR>>, <<XB, YS, X, YL>> >>
              [] idx = 11 -> << <<XB, YS, XS, YR>> >>
              [] idx = 12 -> << <<XS, YR, X, YL>> >>
              [] idx = 13 -> << <<XS, YR, XT, Y>> >>
              [] idx = 14 -> << <<XT, Y, X, YL>> >>]

\* variant: an index without a table entry drawn as the line of entry 3
SegmentsEmittedWithFallback(table, idx) ==
    IF idx \in DOMAIN table THEN table[idx] ELSE table[3]

\* variant: only the first segment of an entry drawn
SegmentsEmittedFirstOnly(table, idx) ==
    IF idx \in DOMAIN table THEN <<table[idx][1]>> ELSE <<>>

\* the segments moved and lined to: segments[idx], nothing when it is undefined
SegmentsEmitted(table, idx) ==
    IF idx \in DOMAIN table THEN table[idx] ELSE <<>>

\* the segments drawContourSegment puts on the path for one cell and one level
drawContourSegment(x, y, size, idx, level, levelCount, v00, v10, v01, v11) ==
    LET top    == Interpolate(size, level, levelCount, v00, v10)
        bottom == Interpolate(size, level, levelCount, v01, v11)
        left   == Interpolate(size, level, levelCount, v00, v01)
        right  == Interpolate(size, level, levelCount, v10, v11)
    IN  SegmentsEmitted(SegmentTable(x, y, size, top, bottom, left, right), idx)

\* one iteration of the cell loops: cell (i, j) against one level
ContourCell(grid, level, levelCount, i, j) ==
    LET v00 == grid[j][i]
        v10 == grid[j][i + 1]
        v01 == grid[j + 1][i]
        v11 == grid[j + 1][i + 1]
        idx == TopologyIndex(level, levelCount, v00, v10, v01, v11)
    IN  [ level   |-> level,
          i       |-> i,
          j       |-> j,
          idx     |-> idx,
          corners |-> <<v00, v10, v01, v11>>,
          segs    |-> drawContourSegment(i * Resolution, j * Resolution, Resolution,
                                         idx, level, levelCount, v00, v10, v01, v11) ]

\* the cells visited, in drawing order: by level, then row, then column
ContourCells(grid, levels, levelCount, cols, rows) ==
    LET perLevel == (rows - 1) * (cols - 1)
    IN  [k \in 1..(Len(levels) * perLevel) |->
            LET l == (k - 1) \div perLevel
                c == (k - 1) % perLevel
            IN  ContourCell(grid, levels[l + 1], levelCount,
                            c % (cols - 1), c \div (cols - 1))]

\* the canvas before any contour pass, or repainted since the last one
NoContours ==
    [ ran |-> FALSE, levelCount |-> 0, field |-> <<>>, grid |-> <<>>, minV |-> 0,
      maxV |-> 0, levels |-> <<>>, cells |-> <<>> ]

\* variant: the two arguments stored the wrong way round
resizeTransposed(w, h) ==
    [width |-> h, height |-> w, contours |-> NoContours]

\* the render surface after resize(w, h): the stored size, equal to the size of
\* the canvas, which is emptied by the assignment of its width and height
resize(w, h) ==
    [width |-> w, height |-> h, contours |-> NoContours]

\* drawPotentialContours(chargeSystem) with the default resolution, where field
\* gives potentialAt at the sample point of column i and row j
drawPotentialContours(field, w, h, levelCount) ==
    LET cols == Ceil(w, Resolution)
        rows == Ceil(h, Resolution)
        grid == SampleGrid(field, cols, rows)
        minV == SetMin(GridValues(grid))
        maxV == SetMax(GridValues(grid))
        levels == IF FlatField(minV, maxV) THEN <<>>
                  ELSE ContourLevels(minV, maxV, levelCount)
    IN  [ ran        |-> TRUE,
          levelCount |-> levelCount,
          field      |-> field,
          grid       |-> grid,
          minV       |-> minV,
          maxV       |-> maxV,
          levels     |-> levels,
          cells      |-> ContourCells(grid, levels, levelCount, cols, rows) ]

----------------------------------------------------------------------------
(* The default colour map.  The argument t is given in thousandths, a      *)
(* colour is <<r, g, b>>, and the arithmetic is exact.                     *)

\* Math.round(n / d) for d > 0: the nearest integer, a half rounded up
Round(n, d) == (2 * n + d) \div (2 * d)

\* the normalized amplitudes (Ez / maxE + 1) / 2 the colour is asked for
ColorArguments == 0..(2 * Midpoint)

\* the branch taken for t < 0.5, with s = t * 2
BelowMidpoint(t) ==
    LET s == 2 * t
    IN  << Round(10 * 1000 + s * 20, 1000),
           Round(10 * 1000 + s * 20, 1000),
           Round(60 * 1000 + (1000 - s) * 132, 1000) >>

\* the branch taken for t >= 0.5, with s = (t - 0.5) * 2
FromMidpoint(t) ==
    LET s == (t - Midpoint) * 2
    IN  << Round(30 * 1000 - s * 20, 1000),
           Round(30 * 1000 + s * 145, 1000),
           Round(30 * 1000 - s * 10, 1000) >>

\* variant: the blue ramp of the lower half run the other way
getScientificColorBlueRising(t) ==
    IF t < Midpoint
        THEN << BelowMidpoint(t)[1], BelowMidpoint(t)[2],
                BelowMidpoint(2 * Midpoint - 1 - t)[3] >>
        ELSE FromMidpoint(t)

getScientificColor(t) ==
    IF t < Midpoint THEN BelowMidpoint(t) ELSE FromMidpoint(t)

\* no colour asked for yet
NoColor == [called |-> FALSE, t |-> 0, rgb |-> <<0, 0, 0>>]

----------------------------------------------------------------------------
(* The pointer.  A position is a fraction of the canvas box.               *)

\* 0.5
Half == Frac(1, 2)

\* where the left (top) edge of the box reported by getBoundingClientRect may
\* fall within a pixel, in half pixels: on the pixel grid, or half a pixel off it
\* (a canvas centred in a container of odd size)
RectOffsets == {0, 1}

\* canvas.getBoundingClientRect() for a canvas shown at its own size, in half pixels
BoundingClientRect(left, top, w, h) ==
    [left |-> left, top |-> top, width |-> 2 * w, height |-> 2 * h]

\* e.clientX (e.clientY) is a whole number of pixels, the pointer's coordinate
\* rounded down.  For a pointer over a box that starts at origin and is size wide
\* (half pixels) these are the values at its two ends
ClientCoordinates(origin, size) ==
    {origin \div 2, (origin + size - 1) \div 2}

\* the pointer position handleMouseMove(e) stores
handleMouseMove(clientX, clientY, rect) ==
    [ x |-> Frac(2 * clientX - rect.left, rect.width),
      y |-> Frac(2 * clientY - rect.top, rect.height) ]

\* variant: the vertical position left where it is
handleMouseLeaveHorizontalOnly(x, y) == [x |-> Half, y |-> y]

\* the pointer position handleMouseLeave() stores, having been at (x, y)
handleMouseLeave(x, y) == [x |-> Half, y |-> Half]

----------------------------------------------------------------------------
(* The objects of the physics side: the field lines of the table above,    *)
(* each with its points (named by their index) and its fromPositive flag,  *)
(* and the charges of chargeSystem (the signed magnitude of each).         *)

SimulationData ==
    [ fieldLines |-> [ line \in FieldLines |->
                        [ points       |-> [k \in 1..FieldLinePointCount[line] |-> k],
                          fromPositive |-> FieldLineFromPositive[line] ] ],
      charges    |-> <<1, -1>> ]

\* the charges the application may put into chargeSystem
ChargeSettings == {<<1, -1>>, <<1, 1>>}

\* variant: a method that turns the points of every line round
RenderedPointsReversed(data) ==
    [data EXCEPT !.fieldLines =
        [line \in FieldLines |->
            [data.fieldLines[line] EXCEPT !.points =
                [k \in 1..Len(@) |-> @[Len(@) + 1 - k]]]]]

\* the objects after a method of the renderer that was handed them: the methods
\* read line.points, line.fromPositive and chargeSystem.potentialAt and assign to
\* none of them
Rendered(data) == data

----------------------------------------------------------------------------
(* The shutter (class ModeTransition).  Of the overlay's class list the    *)
(* model keeps the three classes the transition adds and removes.  A       *)
(* callback waiting in setTimeout is [fn, call]: which of the three nested *)
(* callbacks it is and the call of transition that set it.  A call is      *)
(* followed by a record of what happened to its callback and its promise.  *)

ShutterClasses == {"closing", "closed", "opening"}

\* a call of transition(onMidpoint) as it starts; callable tells whether
\* typeof onMidpoint === 'function'
NewCall(callable) ==
    [ callable           |-> callable,
      invoked            |-> 0,       \* times onMidpoint was called
      closedWhenInvoked  |-> TRUE,    \* the overlay carried 'closed' each time
      promise            |-> "pending",
      mode               |-> "none",  \* the mode a click handler waits to report
      completeAtResolve  |-> FALSE ]  \* the transition was complete when it resolved

\* the promise of a call resolves, the shutter being in the given state
Resolve(call, classes, transitioning) ==
    [call EXCEPT !.promise = "resolved",
                 !.completeAtResolve = (classes \cap ShutterClasses = {}) /\ ~transitioning]

\* onMidpoint is called if it is a function
onMidpoint(call, classes) ==
    IF call.callable
        THEN [call EXCEPT !.invoked = @ + 1,
                          !.closedWhenInvoked = @ /\ "closed" \in classes]
        ELSE call

----------------------------------------------------------------------------
(* UIControls (controls.js): the mode buttons and the range inputs *)

\* the simulation modes: the mode buttons have the ids btn-<mode>, the panels
\* are the values of the panels object of bindModeButtons
Modes == {"electrostatic", "waves", "particles"}

\* the ids of sliderConfigs in initDialSliders
SliderIds == {"speed-slider", "charge-magnitude", "wave-frequency", "wave-amplitude",
              "magnetic-field-z", "electric-field-x", "electric-field-y"}

\* a range input of the page: whether it and its value display are in the
\* document, its dataset.upgraded, and the DialSliders built on it so far
RangeInput(present, display) ==
    [present |-> present, display |-> display, upgraded |-> FALSE, dials |-> 0]

\* the page before any slider was inserted
RangeInputs == [id \in SliderIds |-> RangeInput(FALSE, FALSE)]

\* upgradeToDialSlider(rangeInput, valueDisplay, formatFn): one more DialSlider
\* is built for the input
upgradeToDialSlider(slider) == [slider EXCEPT !.dials = @ + 1]

\* initDialSliders without the test of dataset.upgraded
initDialSlidersUnmarked(inputs) ==
    [id \in SliderIds |->
        IF inputs[id].present /\ inputs[id].display
            THEN [upgradeToDialSlider(inputs[id]) EXCEPT !.upgraded = TRUE]
            ELSE inputs[id]]

\* the forEach of initDialSliders over sliderConfigs
initDialSliders(inputs) ==
    [id \in SliderIds |->
        LET slider == inputs[id]
        IN  IF slider.present /\ slider.display
                THEN IF ~slider.upgraded
                        THEN [upgradeToDialSlider(slider) EXCEPT !.upgraded = TRUE]
                        ELSE slider
                ELSE slider]

\* the inputs a run of initDialSliders finds upgraded already
AlreadyUpgraded(inputs) ==
    {id \in SliderIds : inputs[id].present /\ inputs[id].display /\ inputs[id].upgraded}

\* the UIControls object after its constructor, with the classes of the page:
\* active holds the modes whose button carries 'active', hidden the modes whose
\* panel carries 'hidden'; switched is the mode the last handler passed to
\* switchMode, modeChanged the mode of the last call of onModeChange and
\* modeAtChange the value of currentMode during that call; shutter tells
\* whether window.modeTransition exists, which mode-transition.js settles when
\* the page is loaded and which the first click reads
UIControls ==
    [ shutter      |-> "unknown",
      currentMode  |-> "electrostatic",
      active       |-> {"electrostatic"},
      hidden       |-> {"waves", "particles"},
      switched     |-> "none",
      modeChanged  |-> "none",
      modeAtChange |-> "none" ]

\* a handler that has not called switchMode
Idle(c) == [c EXCEPT !.switched = "none"]

\* a click handler that has read window.modeTransition
Found(c, seen) == [c EXCEPT !.shutter = seen, !.switched = "none"]

\* switchMode that moves the classes and leaves currentMode as it was
switchModeClassesOnly(c, modeId) ==
    [c EXCEPT !.active = (@ \ Modes) \cup {modeId},
              !.hidden = {key \in Modes : key # modeId},
              !.switched = modeId]

\* switchMode that leaves the class 'active' on the other buttons
switchModeKeepingActive(c, modeId) ==
    [c EXCEPT !.currentMode = modeId,
              !.active = @ \cup {modeId},
              !.hidden = Modes \ {modeId},
              !.switched = modeId]

\* switchMode(modeId, modeButtons, panels): every mode button loses 'active',
\* btn-<modeId> gains it, and each panel is hidden unless its key is modeId
switchMode(c, modeId) ==
    [c EXCEPT !.currentMode = modeId,
              !.active = (@ \ Modes) \cup {modeId},
              !.hidden = {key \in Modes : key # modeId},
              !.switched = modeId]

\* if (this.onModeChange) this.onModeChange(modeId), with a callback set
onModeChange(c, modeId) ==
    [c EXCEPT !.modeChanged = modeId, !.modeAtChange = c.currentMode]

----------------------------------------------------------------------------
(* DialSlider (dial-slider.js) *)

\* parseFloat(option) || fallback: NaN and 0 give the fallback
OrDefault(option, fallback) ==
    IF option.kind # "finite" \/ option.value = 0 THEN fallback ELSE option.value

\* the options a DialSlider is constructed with; NotANumber stands for an
\* option that is left out, or for the empty string of a missing attribute
Options(min, max, step, value) == [min |-> min, max |-> max, step |-> step, value |-> value]

\* the element a plain DialSlider has no range input for
NoInput == [id |-> "none", min |-> 0, max |-> 0, value |-> 0]
\* no call of onParameterChange
NoReport == [id |-> "none", value |-> 0]

\* before a DialSlider is constructed
NoDial ==
    [ built      |-> FALSE,
      given      |-> Options(NotANumber, NotANumber, NotANumber, NotANumber),
      min        |-> 0,
      max        |-> 0,
      step       |-> 0,
      value      |-> 0,
      isDragging |-> FALSE,
      rangeInput |-> NoInput,
      reported   |-> NoReport ]

\* new DialSlider(container, options): this.options, this.value, this.isDragging
DialSlider(options, rangeInput) ==
    [ built      |-> TRUE,
      given      |-> options,
      min        |-> OrDefault(options.min, 0),
      max        |-> OrDefault(options.max, 100),
      step       |-> OrDefault(options.step, 1),
      value      |-> OrDefault(options.value, 0),
      isDragging |-> FALSE,
      rangeInput |-> rangeInput,
      reported   |-> NoReport ]

\* rangeInput.value = value: a range input keeps its value within its min and max
SetInputValue(r, value) == [r EXCEPT !.value = Max(r.min, Min(r.max, value))]

\* the options.onInput of upgradeToDialSlider: the range input takes the value
\* and dispatches 'input', which the listener of bindSliders answers with
\* onParameterChange(slider.id, parseFloat(e.target.value)); a plain dial has
\* the empty default
onInput(d, value) ==
    IF d.rangeInput.id = "none"
        THEN d
        ELSE LET r == SetInputValue(d.rangeInput, value)
             IN  [d EXCEPT !.rangeInput = r,
                           !.reported = [id |-> r.id, value |-> r.value]]

\* the options.onChange of upgradeToDialSlider: the range input takes the value
\* and dispatches 'change', which no listener of controls.js is bound to
onChange(d, value) ==
    IF d.rangeInput.id = "none"
        THEN d
        ELSE [d EXCEPT !.rangeInput = SetInputValue(d.rangeInput, value)]

\* setValue(value, isInput)
setValue(d, value, isInput) ==
    LET clamped == [d EXCEPT !.value = Max(d.min, Min(d.max, value))]
    IN  IF isInput THEN onInput(clamped, clamped.value) ELSE clamped

\* where the pointer is along the track, (clientX - rect.left) / rect.width,
\* in halves of the track width: left of it, on it, right of it
PointerStops == -1..3

\* steppedValue of drag and handleTrackClick for a pointer stop
SteppedValue(d, stop) ==
    LET percent == Max(0, Min(2, stop))
    IN  Round(2 * d.min + percent * (d.max - d.min), 2 * d.step) * d.step

\* drag(e)
drag(d, stop) ==
    IF ~d.isDragging
        THEN d
        ELSE IF SteppedValue(d, stop) # d.value
                THEN setValue(d, SteppedValue(d, stop), TRUE)
                ELSE d

\* endDrag()
endDrag(d) ==
    IF d.isDragging THEN onChange([d EXCEPT !.isDragging = FALSE], d.value) ELSE d

\* handleTrackClick(e) for a click beside the thumb
handleTrackClick(d, stop) ==
    LET set == setValue(d, SteppedValue(d, stop), FALSE)
    IN  onChange(set, set.value)

Keys == {"ArrowRight", "ArrowUp", "ArrowLeft", "ArrowDown", "Home", "End", "Tab"}

\* handleKeyboard(e)
handleKeyboard(d, key) ==
    LET newValue ==
            IF key \in {"ArrowRight", "ArrowUp"} THEN Min(d.max, d.value + d.step)
            ELSE IF key \in {"ArrowLeft", "ArrowDown"} THEN Max(d.min, d.value - d.step)
            ELSE IF key = "Home" THEN d.min
            ELSE d.max
        set == setValue(d, newValue, FALSE)
    IN  IF key \in {"ArrowRight", "ArrowUp", "ArrowLeft", "ArrowDown", "Home", "End"}
            THEN onChange(set, set.value)
            ELSE d

\* the options of the DialSliders constructed directly
DialOptions ==
    { Options(min, max, step, value) :
        min \in {NotANumber, Finite(2)}, max \in {NotANumber, Finite(6)},
        step \in {NotANumber, Finite(2)}, value \in {NotANumber, Finite(4), Finite(8)} }

\* the range inputs that are upgraded: the attributes min, max and step ('' if
\* missing) and a value, which a range input keeps within its min and max
UpgradedInputs ==
    { [id |-> id, min |-> min, max |-> max, step |-> step, value |-> value] :
        id \in {"speed-slider", "electric-field-x"},
        min \in {Finite(-2)}, max \in {Finite(0), Finite(4)},
        step \in {NotANumber, Finite(2)}, value \in {Finite(-2), Finite(0)} }

\* the DialSlider upgradeToDialSlider(rangeInput, ...) constructs
UpgradedDial(input) ==
    DialSlider(Options(input.min, input.max,
                       IF input.step.kind = "finite" THEN input.step ELSE Finite(1),
                       input.value),
               [id |-> input.id, min |-> OrDefault(input.min, 0),
                max |-> input.max.value, value |-> input.value.value])

----------------------------------------------------------------------------
(* TechnicalCalipers (dial-slider.js) *)

\* options.trackWidth, options.majorTickSpacing and options.minorTicksPerMajor
\* as the constructor defaults them
TrackWidth == 20
MajorTickSpacing == 100
MinorTicksPerMajor == 5

\* the arguments of setScale, a positive scale being what the zoom produces
Scales == {-1, 0, 1, 2}

\* canvas.offsetWidth and canvas.offsetHeight, each above twice the track width
CaliperWidths == {60, 100}
CaliperHeights == {60, 80}

\* the four tick loops of update(), in their order, and what follows each
Edges == <<"top", "bottom", "left", "right">>
EdgeAfter(edge) ==
    CASE edge = "top" -> "bottom"
      [] edge = "bottom" -> "left"
      [] edge = "left" -> "right"
      [] edge = "right" -> "returned"

\* const minorSpacing = majorSpacing / minorTicksPerMajor, with
\* majorSpacing = majorTickSpacing * scale
minorSpacing(c) == (MajorTickSpacing * c.scale) \div MinorTicksPerMajor

\* the bound the loop variable of an edge is tested against: width - tw for
\* the top and bottom edge, height - tw for the left and right edge
LoopBound(c) ==
    IF c.edge \in {"top", "bottom"} THEN c.width - TrackWidth ELSE c.height - TrackWidth

\* how far the loop variable of the running loop is from its bound
Remaining(c) == LoopBound(c) - c.at

\* the ticks a loop draws along an edge of the given length at a positive spacing
TicksAlong(length, spacing) == Ceil(length - 2 * TrackWidth, spacing)

\* the calipers after the constructor, whose update() ran with scale 1 on a
\* canvas of 100 by 80: edge is the loop update() is in, at its loop variable
\* (x or y), ticks the lines in tickGroup
TechnicalCalipers ==
    [ scale  |-> 1,
      width  |-> 100,
      height |-> 80,
      edge   |-> "returned",
      at     |-> 0,
      ticks  |-> 2 * TicksAlong(100, MajorTickSpacing \div MinorTicksPerMajor)
                 + 2 * TicksAlong(80, MajorTickSpacing \div MinorTicksPerMajor) ]

\* update() up to the first test of the top loop: tickGroup is emptied, x = tw
update(c) == [c EXCEPT !.edge = "top", !.at = TrackWidth, !.ticks = 0]

----------------------------------------------------------------------------
(* State machine *)

Call(op, fieldLines) == [op |-> op, fieldLines |-> fieldLines]

Init ==
    /\ flowParticles = <<>>
    /\ now = 0
    /\ lastTime = 0
    /\ animTime = 0
    /\ width = 3 * Resolution - 4
    /\ height = 2 * Resolution
    /\ contourLevels = DefaultContourLevels
    /\ contours = NoContours
    /\ mouseX = Half
    /\ mouseY = Half
    /\ color = NoColor
    /\ simulation = SimulationData
    /\ isTransitioning = FALSE
    /\ overlay = {}
    /\ timers = {}
    /\ calls = <<>>
    /\ controls = UIControls
    /\ sliders = RangeInputs
    /\ dial = NoDial
    /\ calipers = TechnicalCalipers
    /\ lastCall = Call("constructor", <<>>)

\* renderer.initFlowParticles(fieldLines)
InitFlowParticles(lists) ==
    \E fieldLines \in lists, cursor \in RandomStarts :
        /\ flowParticles' = initFlowParticles(fieldLines, cursor)
        /\ lastCall' = Call("initFlowParticles", fieldLines)
        /\ UNCHANGED <<lastTime, animTime, now>>
        /\ UNCHANGED surfaceVars
        /\ simulation' = Rendered(simulation)
        /\ UNCHANGED pageVars

\* renderer.tick(): the clock has advanced by d since it was last read
Tick ==
    \E d \in DtValues :
        /\ now + d <= MaxNow
        /\ now' = now + d
        /\ LET dt == now' - lastTime
           IN  /\ lastTime' = now'
               /\ animTime' = animTime + dt
               /\ flowParticles' = updateFlowParticles(flowParticles, dt)
        /\ lastCall' = Call("tick", <<>>)
        /\ UNCHANGED surfaceVars
        /\ simulation' = Rendered(simulation)
        /\ UNCHANGED pageVars

\* renderer.drawFlowParticles(fieldLines), also reached through drawFieldLines
DrawFlowParticles(lists) ==
    \E fieldLines \in lists, cursor \in RandomStarts :
        /\ flowParticles' = drawFlowParticles(flowParticles, fieldLines, cursor)
        /\ lastCall' = Call("drawFlowParticles", fieldLines)
        /\ UNCHANGED <<lastTime, animTime, now>>
        /\ UNCHANGED surfaceVars
        /\ simulation' = Rendered(simulation)
        /\ UNCHANGED pageVars

\* seeding with field-line lists of up to MaxLines lines, and drawing
SeedFlowParticles == InitFlowParticles(FieldLineLists)
SeedOnDraw == DrawFlowParticles(ShortFieldLineLists)

NextSeed ==
    \/ SeedFlowParticles
    \/ SeedOnDraw

SpecSeed == Init /\ [][NextSeed]_vars

\* seeding, drawing and the frame clock, with lists of up to MaxFlowLines lines
ReseedFlowParticles == InitFlowParticles(ShortFieldLineLists)
DrawFrame == DrawFlowParticles(ShortFieldLineLists)

NextFlow ==
    \/ ReseedFlowParticles
    \/ Tick
    \/ DrawFrame

SpecFlow == Init /\ [][NextFlow]_vars

----------------------------------------------------------------------------
(* The render surface and the contour pass.  The application draws one     *)
(* frame at a time: clear(), then the layers; it changes the canvas size   *)
(* and contourLevels between frames.                                       *)

SamplePoints == {<<i, j>> : i \in 0..(Ceil(width, Resolution) - 1),
                            j \in 0..(Ceil(height, Resolution) - 1)}

\* renderer.clear(): the canvas is repainted with the background and the grid
Clear ==
    /\ contours' = NoContours
    /\ lastCall' = Call("clear", <<>>)
    /\ UNCHANGED <<width, height, contourLevels>>
    /\ UNCHANGED flowVars
    /\ simulation' = Rendered(simulation)
    /\ UNCHANGED pageVars

\* renderer.resize(w, h)
Resize ==
    \E w \in CanvasWidths, h \in CanvasHeights :
        /\ width' = resize(w, h).width
        /\ height' = resize(w, h).height
        /\ contours' = resize(w, h).contours
        /\ lastCall' = Call("resize", <<>>)
        /\ UNCHANGED contourLevels
        /\ UNCHANGED flowVars
        /\ simulation' = Rendered(simulation)
        /\ UNCHANGED pageVars

\* the application assigns renderer.contourLevels
SetContourLevels ==
    \E n \in (1..MaxContourLevels) \cup {DefaultContourLevels} :
        /\ ~contours.ran
        /\ contourLevels' = n
        /\ lastCall' = Call("contourLevels", <<>>)
        /\ UNCHANGED <<width, height, contours>>
        /\ UNCHANGED flowVars
        /\ UNCHANGED simulation
        /\ UNCHANGED pageVars

\* renderer.drawPotentialContours(chargeSystem), also reached through
\* drawPotentialField, where potentialAt returns values of the given set
DrawContours(values) ==
    \E field \in [SamplePoints -> values] :
        /\ ~contours.ran
        /\ contours' = drawPotentialContours(field, width, height, contourLevels)
        /\ lastCall' = Call("drawPotentialContours", <<>>)
        /\ UNCHANGED <<width, height, contourLevels>>
        /\ UNCHANGED flowVars
        /\ simulation' = Rendered(simulation)
        /\ UNCHANGED pageVars

DrawPotentialContours == DrawContours(PotentialValues)

\* the contour pass on potentials with non-finite and with out-of-range values
DrawNonFiniteContours == DrawContours(NonFiniteValues)
DrawOutOfRangeContours == DrawContours(OutOfRangeValues)

NextClamp ==
    \/ Clear
    \/ Resize
    \/ DrawNonFiniteContours
    \/ DrawOutOfRangeContours

SpecClamp == Init /\ [][NextClamp]_vars

NextContour ==
    \/ Clear
    \/ Resize
    \/ SetContourLevels
    \/ DrawPotentialContours

SpecContour == Init /\ [][NextContour]_vars

----------------------------------------------------------------------------
(* The colour map at work *)

\* renderer.getScientificColor(normalized), as drawWave2D calls it for each cell
GetScientificColor ==
    \E t \in ColorArguments :
        /\ color' = [called |-> TRUE, t |-> t, rgb |-> getScientificColor(t)]
        /\ lastCall' = Call("getScientificColor", <<>>)
        /\ UNCHANGED <<flowVars, surfaceVars, simulation, pointerVars, shutterVars,
                       controls, widgetVars>>

NextColor == GetScientificColor

SpecColor == Init /\ [][NextColor]_vars

----------------------------------------------------------------------------
(* The pointer over the canvas *)

\* a mousemove event delivered to the canvas: the pointer is over its box
HandleMouseMove ==
    \E left \in RectOffsets, top \in RectOffsets :
        LET rect == BoundingClientRect(left, top, width, height)
        IN  \E clientX \in ClientCoordinates(rect.left, rect.width),
               clientY \in ClientCoordinates(rect.top, rect.height) :
                LET pointer == handleMouseMove(clientX, clientY, rect)
                IN  /\ mouseX' = pointer.x
                    /\ mouseY' = pointer.y
                    /\ lastCall' = Call("handleMouseMove", <<>>)
                    /\ UNCHANGED <<flowVars, surfaceVars, simulation, color, shutterVars,
                       controls, widgetVars>>

\* a mouseleave event delivered to the canvas
HandleMouseLeave ==
    LET pointer == handleMouseLeave(mouseX, mouseY)
    IN  /\ mouseX' = pointer.x
        /\ mouseY' = pointer.y
        /\ lastCall' = Call("handleMouseLeave", <<>>)
        /\ UNCHANGED <<flowVars, surfaceVars, simulation, color, shutterVars,
                       controls, widgetVars>>

NextPointer ==
    \/ HandleMouseMove
    \/ HandleMouseLeave
    \/ Resize

SpecPointer == Init /\ [][NextPointer]_vars

\* the surface in use: the pointer moves, the window is resized and the frame
\* clock runs over a pool seeded from one line of two points
SingleLineLists == {<<2>>}
SeedSingleLine == InitFlowParticles(SingleLineLists)

NextSurface ==
    \/ HandleMouseMove
    \/ HandleMouseLeave
    \/ Resize
    \/ Tick
    \/ SeedSingleLine

SpecSurface == Init /\ [][NextSurface]_vars

----------------------------------------------------------------------------
(* The shutter *)

rendererVars == <<flowParticles, lastTime, animTime, now, width, height,
                  contourLevels, contours, mouseX, mouseY, color, simulation>>

\* transition(onMidpoint) accepting a call although a transition is running
transitionUnguarded(call) ==
    /\ isTransitioning' = TRUE
    /\ overlay' = (overlay \ {"opening", "closed"}) \cup {"closing"}
    /\ timers' = timers \cup {[fn |-> "close", call |-> Len(calls) + 1]}
    /\ calls' = Append(calls, call)

\* modeTransition.transition(onMidpoint), up to its return
transition(call) ==
    IF isTransitioning
        THEN \* the async function returns at once: its promise is resolved
             /\ calls' = Append(calls, Resolve(call, overlay, isTransitioning))
             /\ UNCHANGED <<isTransitioning, overlay, timers>>
        ELSE /\ isTransitioning' = TRUE
             /\ overlay' = (overlay \ {"opening", "closed"}) \cup {"closing"}
             /\ timers' = timers \cup {[fn |-> "close", call |-> Len(calls) + 1]}
             /\ calls' = Append(calls, call)

\* a call of transition by a caller other than the click handler
Transition ==
    \E callable \in BOOLEAN :
        /\ Len(calls) < MaxCalls
        /\ transition(NewCall(callable))
        /\ controls' = Idle(controls)
        /\ lastCall' = Call("transition", <<>>)
        /\ UNCHANGED <<rendererVars, widgetVars>>

\* the first timeout, closeDuration after the call: the shutter is closed and
\* onMidpoint runs, which is switchMode for a call made by a click handler
ShutterClosed ==
    \E timer \in timers :
        /\ timer.fn = "close"
        /\ overlay' = overlay \cup {"closed"}
        /\ calls' = [calls EXCEPT ![timer.call] = onMidpoint(@, overlay')]
        /\ controls' = IF calls[timer.call].mode # "none"
                          THEN switchMode(controls, calls[timer.call].mode)
                          ELSE Idle(controls)
        /\ timers' = (timers \ {timer}) \cup {[fn |-> "hold", call |-> timer.call]}
        /\ lastCall' = Call("closeTimeout", <<>>)
        /\ UNCHANGED isTransitioning
        /\ UNCHANGED <<rendererVars, widgetVars>>

\* the second timeout, 100 ms later: the shutter starts to open
HoldOver ==
    \E timer \in timers :
        /\ timer.fn = "hold"
        /\ overlay' = (overlay \ {"closing", "closed"}) \cup {"opening"}
        /\ timers' = (timers \ {timer}) \cup {[fn |-> "open", call |-> timer.call]}
        /\ controls' = Idle(controls)
        /\ lastCall' = Call("holdTimeout", <<>>)
        /\ UNCHANGED <<isTransitioning, calls>>
        /\ UNCHANGED <<rendererVars, widgetVars>>

\* the third timeout, closeDuration later: the transition is complete, and a
\* click handler awaiting the promise goes on to report the mode change before
\* any other event is handled
ShutterOpened ==
    \E timer \in timers :
        /\ timer.fn = "open"
        /\ overlay' = overlay \ {"opening"}
        /\ isTransitioning' = FALSE
        /\ calls' = [calls EXCEPT ![timer.call] = Resolve(@, overlay', isTransitioning')]
        /\ controls' = IF calls[timer.call].mode # "none"
                          THEN onModeChange(Idle(controls), calls[timer.call].mode)
                          ELSE Idle(controls)
        /\ timers' = timers \ {timer}
        /\ lastCall' = Call("openTimeout", <<>>)
        /\ UNCHANGED <<rendererVars, widgetVars>>

NextShutter ==
    \/ Transition
    \/ ShutterClosed
    \/ HoldOver
    \/ ShutterOpened

SpecShutter == Init /\ [][NextShutter]_vars

----------------------------------------------------------------------------
(* The renderer at work on the objects of the physics side: every method   *)
(* that is handed field lines or the charge system, with the frame clock,  *)
(* while the application edits the charges.                                *)

\* the application replaces the charges of chargeSystem
EditCharges ==
    \E c \in ChargeSettings :
        /\ simulation' = [simulation EXCEPT !.charges = c]
        /\ lastCall' = Call("charges", <<>>)
        /\ UNCHANGED <<flowVars, surfaceVars, pageVars>>

DrawSingleLine == DrawFlowParticles(SingleLineLists)
\* a potential with the values 0 and 1 only
DrawTwoValuedContours == DrawContours({Finite(0), Finite(1)})

NextData ==
    \/ SeedSingleLine
    \/ Tick
    \/ DrawSingleLine
    \/ Clear
    \/ Resize
    \/ DrawTwoValuedContours
    \/ EditCharges

SpecData == Init /\ [][NextData]_vars

----------------------------------------------------------------------------
(* The range inputs and their upgrade to dial sliders *)

\* the page gains a range input of sliderConfigs, with or without its display
InsertSlider ==
    \E id \in SliderIds, display \in BOOLEAN :
        /\ ~sliders[id].present
        /\ sliders' = [sliders EXCEPT ![id] = RangeInput(TRUE, display)]
        /\ lastCall' = Call("insertSlider", <<>>)
        /\ UNCHANGED <<rendererVars, shutterVars, controls, dial, calipers>>

\* the value display of a range input is added to the page
InsertDisplay ==
    \E id \in SliderIds :
        /\ sliders[id].present /\ ~sliders[id].display
        /\ sliders' = [sliders EXCEPT ![id].display = TRUE]
        /\ lastCall' = Call("insertDisplay", <<>>)
        /\ UNCHANGED <<rendererVars, shutterVars, controls, dial, calipers>>

\* uiControls.initDialSliders(); defined tells whether dial-slider.js has
\* defined upgradeToDialSlider
InitDialSliders ==
    \E defined \in BOOLEAN :
        /\ sliders' = IF defined THEN initDialSliders(sliders) ELSE sliders
        /\ lastCall' = Call("initDialSliders",
                            IF defined THEN AlreadyUpgraded(sliders) ELSE {})
        /\ UNCHANGED <<rendererVars, shutterVars, controls, dial, calipers>>

NextUpgrade ==
    \/ InsertSlider
    \/ InsertDisplay
    \/ InitDialSliders

SpecUpgrade == Init /\ [][NextUpgrade]_vars

----------------------------------------------------------------------------
(* The mode buttons: clicks interleaved with the timeouts of the shutter *)

\* window.modeTransition as a click finds it: set once, before any click
ModeTransitionSeen(c) ==
    IF c.shutter = "unknown" THEN {"installed", "absent"} ELSE {c.shutter}

\* the click listener of a mode button (bindModeButtons). A click on the button of the current
\* mode returns at once. With the shutter the handler awaits transition(): a
\* call that is dropped resolves at once, and the handler goes on to
\* onModeChange before any timer runs
ClickMode ==
    \E modeId \in Modes, seen \in ModeTransitionSeen(controls) :
        /\ modeId # controls.currentMode
        /\ IF seen = "installed"
              THEN /\ Len(calls) < MaxCalls
                   /\ transition([NewCall(TRUE) EXCEPT !.mode = modeId])
                   /\ controls' = IF isTransitioning
                                     THEN onModeChange(Found(controls, seen), modeId)
                                     ELSE Found(controls, seen)
              ELSE /\ controls' = onModeChange(switchMode(Found(controls, seen), modeId),
                                               modeId)
                   /\ UNCHANGED shutterVars
        /\ lastCall' = Call("click", modeId)
        /\ UNCHANGED <<rendererVars, widgetVars>>

NextModes ==
    \/ ClickMode
    \/ ShutterClosed
    \/ HoldOver
    \/ ShutterOpened

SpecModes == Init /\ [][NextModes]_vars

----------------------------------------------------------------------------
(* A dial slider in use *)

\* what the handlers of a dial start from: nothing reported yet
Unreported(d) == [d EXCEPT !.reported = NoReport]

\* new DialSlider(container, options)
NewDialSlider ==
    \E options \in DialOptions :
        /\ dial' = DialSlider(options, NoInput)
        /\ lastCall' = Call("DialSlider", <<>>)
        /\ UNCHANGED <<rendererVars, shutterVars, controls, sliders, calipers>>

\* upgradeToDialSlider(rangeInput, displayElement, formatFn)
UpgradeToDialSlider ==
    \E input \in UpgradedInputs :
        /\ dial' = UpgradedDial(input)
        /\ lastCall' = Call("upgradeToDialSlider", <<>>)
        /\ UNCHANGED <<rendererVars, shutterVars, controls, sliders, calipers>>

\* mousedown or touchstart on the thumb
StartDrag ==
    /\ dial.built
    /\ dial' = [Unreported(dial) EXCEPT !.isDragging = TRUE]
    /\ lastCall' = Call("startDrag", <<>>)
    /\ UNCHANGED <<rendererVars, shutterVars, controls, sliders, calipers>>

\* mousemove or touchmove on the document
Drag ==
    \E stop \in PointerStops :
        /\ dial.built
        /\ dial' = drag(Unreported(dial), stop)
        /\ lastCall' = Call("drag", <<>>)
        /\ UNCHANGED <<rendererVars, shutterVars, controls, sliders, calipers>>

\* mouseup or touchend on the document
EndDrag ==
    /\ dial.built
    /\ dial' = endDrag(Unreported(dial))
    /\ lastCall' = Call("endDrag", <<>>)
    /\ UNCHANGED <<rendererVars, shutterVars, controls, sliders, calipers>>

\* click on the track
HandleTrackClick ==
    \E stop \in PointerStops :
        /\ dial.built
        /\ dial' = handleTrackClick(Unreported(dial), stop)
        /\ lastCall' = Call("handleTrackClick", <<>>)
        /\ UNCHANGED <<rendererVars, shutterVars, controls, sliders, calipers>>

\* keydown on the thumb
HandleKeyboard ==
    \E key \in Keys :
        /\ dial.built
        /\ dial' = handleKeyboard(Unreported(dial), key)
        /\ lastCall' = Call("handleKeyboard", <<>>)
        /\ UNCHANGED <<rendererVars, shutterVars, controls, sliders, calipers>>

\* dial.setValue(value) called by the application
SetValue ==
    \E value \in {-4, 3, 8}, isInput \in BOOLEAN :
        /\ dial.built
        /\ dial' = setValue(Unreported(dial), value, isInput)
        /\ lastCall' = Call("setValue", <<>>)
        /\ UNCHANGED <<rendererVars, shutterVars, controls, sliders, calipers>>

NextDial ==
    \/ NewDialSlider
    \/ UpgradeToDialSlider
    \/ StartDrag
    \/ Drag
    \/ EndDrag
    \/ HandleTrackClick
    \/ HandleKeyboard
    \/ SetValue

SpecDial == Init /\ [][NextDial]_vars

----------------------------------------------------------------------------
(* The calipers: update() followed through its four tick loops *)

\* calipers.setScale(scale): the scale is stored and update() starts
SetScale ==
    \E scale \in Scales :
        /\ calipers.edge = "returned"
        /\ calipers' = update([calipers EXCEPT !.scale = scale])
        /\ lastCall' = Call("setScale", <<>>)
        /\ UNCHANGED <<rendererVars, shutterVars, controls, sliders, dial>>

\* the ResizeObserver of the constructor: the canvas has a new size and
\* update() starts
CanvasResized ==
    \E w \in CaliperWidths, h \in CaliperHeights :
        /\ calipers.edge = "returned"
        /\ <<w, h>> # <<calipers.width, calipers.height>>
        /\ calipers' = update([calipers EXCEPT !.width = w, !.height = h])
        /\ lastCall' = Call("canvasResized", <<>>)
        /\ UNCHANGED <<rendererVars, shutterVars, controls, sliders, dial>>

\* one pass of a tick loop: the test holds, a line is drawn, and the loop
\* variable is increased by minorSpacing
DrawTick ==
    /\ calipers.edge # "returned"
    /\ calipers.at < LoopBound(calipers)
    /\ calipers.ticks < MaxTicks
    /\ calipers' = [calipers EXCEPT !.at = @ + minorSpacing(calipers), !.ticks = @ + 1]
    /\ lastCall' = Call("drawTick", <<>>)
    /\ UNCHANGED <<rendererVars, shutterVars, controls, sliders, dial>>

\* the test of a tick loop fails: the next loop starts, or update() returns
EndOfEdge ==
    /\ calipers.edge # "returned"
    /\ ~(calipers.at < LoopBound(calipers))
    /\ calipers' = [calipers EXCEPT !.edge = EdgeAfter(@),
                                    !.at = IF EdgeAfter(calipers.edge) = "returned"
                                              THEN 0 ELSE TrackWidth]
    /\ lastCall' = Call("endOfEdge", <<>>)
    /\ UNCHANGED <<rendererVars, shutterVars, controls, sliders, dial>>

NextCalipers ==
    \/ SetScale
    \/ CanvasResized
    \/ DrawTick
    \/ EndOfEdge

SpecCalipers == Init /\ [][NextCalipers]_vars

----------------------------------------------------------------------------
(* Everything together *)

Next ==
    \/ SeedFlowParticles
    \/ Tick
    \/ SeedOnDraw
    \/ Clear
    \/ Resize
    \/ SetContourLevels
    \/ DrawPotentialContours
    \/ GetScientificColor
    \/ HandleMouseMove
    \/ HandleMouseLeave
    \/ EditCharges
    \/ Transition
    \/ ShutterClosed
    \/ HoldOver
    \/ ShutterOpened
    \/ InsertSlider
    \/ InsertDisplay
    \/ InitDialSliders
    \/ ClickMode
    \/ NewDialSlider
    \/ UpgradeToDialSlider
    \/ StartDrag
    \/ Drag
    \/ EndDrag
    \/ HandleTrackClick
    \/ HandleKeyboard
    \/ SetValue
    \/ SetScale
    \/ CanvasResized
    \/ DrawTick
    \/ EndOfEdge

Spec == Init /\ [][Next]_vars

----------------------------------------------------------------------------
(* Properties of the flow-particle system *)

\* a step taken by tick(), which calls updateFlowParticles(dt) once
TickStep == lastCall'.op = "tick"
\* the dt of that call, in tenths of a second
TickDt == lastTime' - lastTime
\* position + speed * dt of particle i before the wrap test
RawPosition(i) == flowParticles[i].position + flowParticles[i].speed * TickDt

Range(seq) == {seq[i] : i \in 1..Len(seq)}

\* C1 as stated: when updateFlowParticles(dt) moves a particle's raw position
\* position + speed*dt above 1, the stored position is the raw position wrapped
\* into [0,1) keeping the overshoot (0.95, speed 0.5, dt 0.2: raw 1.05, stored 0.05).
C1_WrapKeepsOvershoot ==
    [][TickStep =>
        \A i \in 1..Len(flowParticles) :
            RawPosition(i) > One =>
                flowParticles'[i].position = RawPosition(i) % One]_vars

\* C1 as amended: when updateFlowParticles(dt) moves a particle's raw position
\* above 1, the stored position is 0, the overshoot being dropped
\* (0.95, speed 0.5, dt 0.2: raw 1.05, stored 0).
C1_OvershootResetsToZero ==
    [][TickStep =>
        \A i \in 1..Len(flowParticles) :
            RawPosition(i) > One => flowParticles'[i].position = 0]_vars

\* C1 witness: 0.2 s after construction a tick has left a particle of speed 0.5
\* at 0; particles of speed 0.5 are seeded at 0.95 or 0.5, and only 0.95 + 0.5*0.2
\* passes 1.
C1_Witness ==
    /\ lastCall.op = "tick"
    /\ now = 2
    /\ \E i \in 1..Len(flowParticles) :
            flowParticles[i].position = 0 /\ flowParticles[i].speed = 500

\* C2: for every particle and every dt, updateFlowParticles(dt) sets position to
\* position + speed*dt, reset to exactly 0 if that sum is greater than 1 and kept
\* otherwise; speed, line and the number of particles are untouched.
C2_AdvanceSetsPosition ==
    [][TickStep =>
        /\ Len(flowParticles') = Len(flowParticles)
        /\ \A i \in 1..Len(flowParticles) :
              /\ flowParticles'[i].position =
                    IF RawPosition(i) > One THEN 0 ELSE RawPosition(i)
              /\ flowParticles'[i].speed = flowParticles[i].speed
              /\ flowParticles'[i].line = flowParticles[i].line]_vars

\* C2 witness: one tick of 0.2 s on the pool seeded (0.95, 0.5), (0.5, 0.3): the
\* first particle was reset, the second kept its sum 0.56.
C2_Witness ==
    /\ lastCall.op = "tick"
    /\ Len(flowParticles) = 2
    /\ flowParticles[1].position = 0 /\ flowParticles[1].speed = 500
    /\ flowParticles[2].position = 5600 /\ flowParticles[2].speed = 300

\* C3 as stated: in every state reachable by initFlowParticles and
\* updateFlowParticles(dt) calls with dt >= 0, every flow particle's position
\* satisfies 0 <= position < 1.
C3_PositionInHalfOpenUnitInterval ==
    \A i \in 1..Len(flowParticles) :
        0 <= flowParticles[i].position /\ flowParticles[i].position < One

\* the particle count the claim C4 gives for a line of n points
C4_CountFor(n) ==
    IF n < 2 THEN 0
    ELSE LET c == CHOOSE k \in 1..n : 15 * k >= n /\ 15 * (k - 1) < n
         IN  IF c > 8 THEN 8 ELSE c

RECURSIVE C4_TotalFor(_)
C4_TotalFor(fieldLines) ==
    IF fieldLines = <<>> THEN 0
    ELSE C4_CountFor(FieldLinePointCount[Head(fieldLines)]) + C4_TotalFor(Tail(fieldLines))

\* C4: after initFlowParticles(fieldLines), whatever the pool held before, the pool
\* holds exactly the sum over the supplied lines with at least 2 points of
\* min(8, ceil(pointCount/15)) particles and none for shorter lines: an empty list
\* gives 0 particles, a single 20-point line exactly 2.
C4_SeedCount ==
    lastCall.op = "initFlowParticles" =>
        /\ Len(flowParticles) = C4_TotalFor(lastCall.fieldLines)
        /\ \A i \in 1..Len(flowParticles) :
              /\ flowParticles[i].line \in Range(lastCall.fieldLines)
              /\ FieldLinePointCount[flowParticles[i].line] >= 2
        /\ lastCall.fieldLines = <<>> => Len(flowParticles) = 0
        /\ (Len(lastCall.fieldLines) = 1
                /\ FieldLinePointCount[lastCall.fieldLines[1]] = 20)
              => Len(flowParticles) = 2

\* C4 witness: seeding with a 121-point line and a 20-point line gave 8 + 2
\* particles.
C4_Witness ==
    /\ lastCall = Call("initFlowParticles", <<4, 3>>)
    /\ Len(flowParticles) = 10

\* C5 as stated: when the field-line set passed to drawFlowParticles changes from
\* one call to the next, the pool is regenerated: after the call every particle
\* references a line of the newly supplied set.
C5_PoolRegeneratedOnChange ==
    [][(/\ lastCall.op = "drawFlowParticles"
        /\ lastCall'.op = "drawFlowParticles"
        /\ Range(lastCall'.fieldLines) # Range(lastCall.fieldLines))
        => \A i \in 1..Len(flowParticles') :
              flowParticles'[i].line \in Range(lastCall'.fieldLines)]_vars

----------------------------------------------------------------------------
(* Properties of the contour pass *)

CellRecords == {contours.cells[k] : k \in 1..Len(contours.cells)}

\* the two end points of a segment
SegmentStart(seg) == <<seg[1], seg[2]>>
SegmentEnd(seg) == <<seg[3], seg[4]>>

\* C6: for a sampled grid whose minimum equals its maximum (flat field),
\* drawPotentialContours emits no contour level and no segment, for any value of
\* contourLevels.
C6_FlatFieldDrawsNothing ==
    (contours.ran /\ Cardinality(GridValues(contours.grid)) = 1) =>
        /\ contours.levels = <<>>
        /\ \A c \in CellRecords : c.segs = <<>>

\* C6 witness: a pass over a flat 2 x 2 grid with the default 12 levels.
C6_Witness ==
    /\ contours.ran
    /\ contours.levelCount = DefaultContourLevels
    /\ DOMAIN contours.grid = 0..1 /\ DOMAIN contours.grid[0] = 0..1
    /\ GridValues(contours.grid) = {1}

\* C7: for every cell, every level and every combination of corner values,
\* drawContourSegment emits zero segments when the topology index is 0 or 15.
C7_NoSegmentForIndex0And15 ==
    \A c \in CellRecords : c.idx \in {0, 15} => c.segs = <<>>

\* C7 witness: one pass visited a cell with index 15 at one level and with index 0
\* at another.
C7_Witness ==
    /\ \E c \in CellRecords : c.idx = 15
    /\ \E c \in CellRecords : c.idx = 0

\* C8 as stated: for any non-constant sampled grid, no segment emitted by the
\* contour pass has two identical end points, including when a grid sample is
\* exactly equal to a contour level.
C8_NoZeroLengthSegment ==
    (contours.ran /\ contours.minV < contours.maxV) =>
        \A c \in CellRecords :
            \A k \in 1..Len(c.segs) : SegmentStart(c.segs[k]) # SegmentEnd(c.segs[k])

\* C9: for a grid with minV < maxV and contourLevels = N, the contour pass uses
\* exactly N-1 levels, level i = minV + (maxV-minV)*i/N for i = 1..N-1: evenly
\* spaced, strictly increasing, each strictly between minV and maxV.  (Levels are
\* numerators over N.)
C9_LevelsEvenlySpacedInside ==
    (contours.ran /\ contours.minV < contours.maxV) =>
        LET N == contours.levelCount
            range == contours.maxV - contours.minV
        IN  /\ Len(contours.levels) = N - 1
            /\ \A i \in 1..Len(contours.levels) :
                  /\ contours.levels[i] = contours.minV * N + range * i
                  /\ contours.minV * N < contours.levels[i]
                  /\ contours.levels[i] < contours.maxV * N
            /\ \A i \in 1..(Len(contours.levels) - 1) :
                  /\ contours.levels[i] < contours.levels[i + 1]
                  /\ contours.levels[i + 1] - contours.levels[i] = range

\* C9 witness: a pass with the default contourLevels = 12 over a grid with
\* minV = 0 < maxV = 2 used 11 levels.
C9_Witness ==
    /\ contours.ran
    /\ contours.levelCount = DefaultContourLevels
    /\ contours.minV = 0 /\ contours.maxV = 2
    /\ Len(contours.levels) = 11

\* segments a cell emits according to the claim C10
C10_CountFor(idx) ==
    IF idx \in {0, 15} THEN 0 ELSE IF idx \in {5, 10} THEN 2 ELSE 1

\* C10: the number of segments a cell emits depends only on its 4-bit topology
\* index, never on the corner values: indices 0 and 15 emit none, the saddle
\* indices 5 and 10 exactly two, each of the other twelve exactly one.
C10_SegmentCountByIndex ==
    \A c \in CellRecords :
        /\ c.idx \in 0..15
        /\ Len(c.segs) = C10_CountFor(c.idx)

\* C10 witness: one pass met a saddle cell (index 5 or 10, two segments) at one
\* level and the same cell with a one-segment index at another level.
C10_Witness ==
    /\ \E c \in CellRecords : c.idx \in {5, 10} /\ Len(c.segs) = 2
    /\ \E c \in CellRecords : c.idx \notin {0, 5, 10, 15} /\ Len(c.segs) = 1

----------------------------------------------------------------------------
(* Properties of the colour map *)

\* C11: getScientificColor is continuous at t = 0.5: the colour returned at
\* t = 0.5 is the colour the formula of the branch below the midpoint gives at
\* t = 0.5.
C11_ContinuousAtMidpoint ==
    (color.called /\ color.t = Midpoint) => color.rgb = BelowMidpoint(Midpoint)

\* the largest value of channel c over the whole domain
C12_ChannelMax(c) ==
    SetMax({getScientificColor(t)[c] : t \in ColorArguments})

\* C12: at t = 0 the colour returned is the blue extreme (its blue channel is the
\* largest blue of the map and lies above its red and green), and at t = 1 the
\* green extreme (its green channel is the largest green of the map and lies
\* above its red and blue).
C12_ExtremesAtEnds ==
    /\ (color.called /\ color.t = 0) =>
          /\ color.rgb[3] = C12_ChannelMax(3)
          /\ color.rgb[3] > color.rgb[1]
          /\ color.rgb[3] > color.rgb[2]
    /\ (color.called /\ color.t = 2 * Midpoint) =>
          /\ color.rgb[2] = C12_ChannelMax(2)
          /\ color.rgb[2] > color.rgb[1]
          /\ color.rgb[2] > color.rgb[3]

\* the colour at t = 0 has been asked for: rgb(10,10,192)
C12_Witness ==
    color.called /\ color.t = 0 /\ color.rgb = <<10, 10, 192>>

----------------------------------------------------------------------------
(* Properties of the pointer and the render surface *)

FracLeq(a, b) == a[1] * b[2] <= b[1] * a[2]

\* C14: in every state reached by mousemove and mouseleave events the tracked
\* pointer position satisfies 0 <= mouseX <= 1 and 0 <= mouseY <= 1.
C14_PointerInUnitSquare ==
    /\ FracLeq(<<0, 1>>, mouseX) /\ FracLeq(mouseX, <<1, 1>>)
    /\ FracLeq(<<0, 1>>, mouseY) /\ FracLeq(mouseY, <<1, 1>>)

\* the render surface: the stored size and what is on the canvas
Surface == [width |-> width, height |-> height, contours |-> contours]

\* C15: resize(w, h) changes only the canvas and the stored width and height
\* (the particle pool, the pointer position, animTime and lastTime are the same
\* after it as before), and it is idempotent: resize with the same arguments
\* again leaves the surface as the first call left it.
C15_ResizeIdempotentDimensionsOnly ==
    [][lastCall'.op = "resize" =>
          /\ flowParticles' = flowParticles
          /\ mouseX' = mouseX /\ mouseY' = mouseY
          /\ animTime' = animTime /\ lastTime' = lastTime
          /\ resize(width', height') = Surface']_vars

\* a resize with particles in the pool, the pointer off centre and the clock run
C15_Witness ==
    /\ lastCall.op = "resize"
    /\ flowParticles # <<>>
    /\ mouseX # Half
    /\ animTime > 0

----------------------------------------------------------------------------
(* Properties of the frame clock and of the draw points *)

\* C16: each tick() advances every flow particle exactly once, by the time dt
\* elapsed since the previous tick (or since construction), and then holds the
\* time it read as lastTime; so after any sequence of ticks animTime is the time
\* of the last tick less the time of construction (the constructor read the
\* clock at 0).
C16_TickAdvancesOnceByElapsedTime ==
    [][TickStep =>
          /\ lastTime' = now'
          /\ Len(flowParticles') = Len(flowParticles)
          /\ \A i \in 1..Len(flowParticles) :
                flowParticles'[i] = AdvanceParticle(flowParticles[i], now' - lastTime)
          /\ animTime' = lastTime' - 0]_vars

\* a pool advanced by a tick that was not the first one
C16_Witness ==
    /\ lastCall.op = "tick"
    /\ flowParticles # <<>>
    /\ animTime > 10

\* C20: for every particle position reached by seeding and advancing with
\* dt >= 0 and every line of n >= 2 points, the draw point of drawFlowParticles
\* is computed with idx = floor(position * (n-1)) and nextIdx = min(idx+1, n-1),
\* both indices of points of the line (0..n-1), and it lies on the straight
\* segment from points[idx] to points[nextIdx]: it is points[idx] moved towards
\* points[nextIdx] by a fraction t with 0 <= t <= 1.
C20_DrawPointOnLine ==
    lastCall.op = "drawFlowParticles" =>
        \A i \in 1..Len(flowParticles) :
            LET n == FieldLinePointCount[flowParticles[i].line]
                p == DrawPoint(flowParticles[i])
            IN  n >= 2 =>
                    /\ p.idx \in 0..(n - 1)
                    /\ p.nextIdx \in 0..(n - 1)
                    /\ p.nextIdx \in {p.idx, p.idx + 1}
                    /\ 0 <= p.t /\ p.t <= One

\* a frame drawn with a particle at the very end of the line of 121 points
C20_Witness ==
    /\ lastCall.op = "drawFlowParticles"
    /\ \E i \in 1..Len(flowParticles) :
          /\ flowParticles[i].position = One
          /\ FieldLinePointCount[flowParticles[i].line] = 121
          /\ DrawPoint(flowParticles[i]).idx = 120

----------------------------------------------------------------------------
(* Properties of the renderer's use of the simulation data *)

\* the methods of the renderer that are handed simulation objects or run on
\* particles holding them (tick calls updateFlowParticles)
RendererOperations ==
    {"initFlowParticles", "tick", "drawFlowParticles", "drawPotentialContours",
     "clear", "resize"}

\* C17: no operation of the renderer (initFlowParticles, updateFlowParticles,
\* drawFlowParticles, drawPotentialContours, tick, clear, resize) changes the
\* simulation data: the points and the fromPositive flag of every field line
\* and the charges of the charge system are the same after the call as before.
C17_SimulationDataUntouched ==
    [][lastCall'.op \in RendererOperations => simulation' = simulation]_vars

\* contours drawn, with particles in the pool, for charges the application edited
C17_Witness ==
    /\ lastCall.op = "drawPotentialContours"
    /\ flowParticles # <<>>
    /\ simulation.charges # SimulationData.charges
    /\ simulation.fieldLines = SimulationData.fieldLines

----------------------------------------------------------------------------
(* Properties of the shutter *)

\* C18: every call transition(onMidpoint) calls onMidpoint exactly once, at a
\* moment when the overlay carries 'closed', and its promise resolves only when
\* the transition is complete (the overlay carries none of 'closing', 'closed',
\* 'opening' and isTransitioning is false), calls made while an earlier
\* transition is running included.  As a property of states: onMidpoint is never
\* called twice nor with the shutter not closed, and a call whose promise is
\* resolved has had onMidpoint called once and resolved on a complete transition.
C18_CallbackOnceAndResolvedWhenComplete ==
    \A c \in 1..Len(calls) :
        calls[c].callable =>
            /\ calls[c].invoked <= 1
            /\ calls[c].closedWhenInvoked
            /\ calls[c].promise = "resolved" =>
                  calls[c].invoked = 1 /\ calls[c].completeAtResolve

----------------------------------------------------------------------------
(* Properties of the end points of contour segments *)

\* the cell edge each end point of each segment of the lookup table is taken
\* from: x + top and x + bottom run along the top and bottom edge, y + left and
\* y + right along the left and right edge
SegmentEdges ==
    [idx \in 1..14 |->
        CASE idx = 1  -> << <<"left", "top">> >>
          [] idx = 2  -> << <<"top", "right">> >>
          [] idx = 3  -> << <<"left", "right">> >>
          [] idx = 4  -> << <<"right", "bottom">> >>
          [] idx = 5  -> << <<"left", "top">>, <<"right", "bottom">> >>
          [] idx = 6  -> << <<"top", "bottom">> >>
          [] idx = 7  -> << <<"left", "bottom">> >>
          [] idx = 8  -> << <<"bottom", "left">> >>
          [] idx = 9  -> << <<"bottom", "top">> >>
          [] idx = 10 -> << <<"top", "right">>, <<"bottom", "left">> >>
          [] idx = 11 -> << <<"bottom", "right">> >>
          [] idx = 12 -> << <<"right", "left">> >>
          [] idx = 13 -> << <<"right", "top">> >>
          [] idx = 14 -> << <<"top", "left">> >>]

\* the corner values <<vA, vB>> an edge is interpolated between, of the corners
\* <<v00, v10, v01, v11>> of a cell
EdgeCorners(edge, corners) ==
    CASE edge = "top"    -> <<corners[1], corners[2]>>
      [] edge = "bottom" -> <<corners[3], corners[4]>>
      [] edge = "left"   -> <<corners[1], corners[3]>>
      [] edge = "right"  -> <<corners[2], corners[4]>>

\* the point of an edge of the cell at (x, y) at the offset f from its corner A
EdgePoint(edge, x, y, size, f) ==
    CASE edge = "top"    -> <<Shift(x, f), <<y, 1>>>>
      [] edge = "bottom" -> <<Shift(x, f), <<y + size, 1>>>>
      [] edge = "left"   -> <<<<x, 1>>, Shift(y, f)>>
      [] edge = "right"  -> <<<<x + size, 1>>, Shift(y, f)>>

\* one end point of an emitted segment is a crossing of the level on the edge
C19_EndPointOnStraddlingEdge(c, point, edge) ==
    LET N    == contours.levelCount
        x    == c.i * Resolution
        y    == c.j * Resolution
        vA   == EdgeCorners(edge, c.corners)[1]
        vB   == EdgeCorners(edge, c.corners)[2]
        \* the offset size * (level - vA) / (vB - vA)
        f    == Frac(Resolution * (c.level - vA * N), N * (vB - vA))
    IN  /\ (vA * N >= c.level) # (vB * N >= c.level)
        /\ vB - vA # 0
        /\ FracLeq(<<0, 1>>, f) /\ FracLeq(f, <<Resolution, 1>>)
        /\ point = EdgePoint(edge, x, y, Resolution, f)
        /\ FracLeq(<<x, 1>>, point[1]) /\ FracLeq(point[1], <<x + Resolution, 1>>)
        /\ FracLeq(<<y, 1>>, point[2]) /\ FracLeq(point[2], <<y + Resolution, 1>>)

\* C19: for every topology index 1..14 and the corner values it was computed
\* from, each end point of each emitted segment lies on a cell edge whose two
\* corners straddle the level (one >= level, the other < level): the two corner
\* values differ, so the substitute 1 for a zero denominator is not used, the
\* interpolation fraction is in [0,1], and the end point is inside the cell's
\* square [x, x+size] x [y, y+size].
C19_EndPointsOnStraddlingEdges ==
    \A c \in CellRecords :
        c.idx \in 1..14 =>
            /\ Len(c.segs) = Len(SegmentEdges[c.idx])
            /\ \A k \in 1..Len(c.segs) :
                  /\ C19_EndPointOnStraddlingEdge(c, SegmentStart(c.segs[k]),
                                                  SegmentEdges[c.idx][k][1])
                  /\ C19_EndPointOnStraddlingEdge(c, SegmentEnd(c.segs[k]),
                                                  SegmentEdges[c.idx][k][2])

\* a saddle cell with its two segments, and a cell whose segment ends strictly
\* inside an edge
C19_Witness ==
    /\ \E c \in CellRecords : c.idx = 5 /\ Len(c.segs) = 2
    /\ \E c \in CellRecords :
          /\ c.idx \in 1..14
          /\ SegmentStart(c.segs[1])[1][2] # 1 \/ SegmentStart(c.segs[1])[2][2] # 1

----------------------------------------------------------------------------
(* Properties of the sampling of the potential *)

\* C21: whatever potentialAt returns, NaN and +/-Infinity included, every sample
\* stored in the potential grid lies within [-1e6, 1e6], a non-finite value being
\* stored as 0; hence minV and maxV of a non-empty grid lie within [-1e6, 1e6].
C21_SamplesClamped ==
    contours.ran =>
        /\ \A p \in DOMAIN contours.field :
              LET raw == contours.field[p]
                  V   == contours.grid[p[2]][p[1]]
              IN  /\ -ClampLimit <= V /\ V <= ClampLimit
                  /\ raw.kind # "finite" => V = 0
        /\ -ClampLimit <= contours.minV /\ contours.minV <= ClampLimit
        /\ -ClampLimit <= contours.maxV /\ contours.maxV <= ClampLimit

\* a grid sampled from Infinity, -Infinity, NaN and a value above the range
C21_Witness ==
    /\ contours.ran
    /\ \E p \in DOMAIN contours.field : contours.field[p] = PlusInfinity
    /\ \E p \in DOMAIN contours.field : contours.field[p] = MinusInfinity
    /\ \E p \in DOMAIN contours.field : contours.field[p] = NotANumber
    /\ contours.minV = 0
    /\ contours.maxV = ClampLimit

----------------------------------------------------------------------------
(* Properties of UIControls and of the widgets of dial-slider.js *)

\* C22: however often initDialSliders runs, and whatever sliders the page
\* gains between the runs, no range input has more than one DialSlider built
\* on it: an input that carries dataset.upgraded is skipped
C22_UpgradedAtMostOnce ==
    \A id \in SliderIds :
        /\ sliders[id].dials <= 1
        /\ sliders[id].upgraded <=> sliders[id].dials = 1

\* a run of initDialSliders that skipped an upgraded input and upgraded another
C22_Witness ==
    /\ lastCall.op = "initDialSliders"
    /\ lastCall.fieldLines # {}
    /\ \E id \in SliderIds : sliders[id].upgraded /\ id \notin lastCall.fieldLines

\* the timer chain of a transition is pending exactly while isTransitioning
OneChainWhileTransitioning ==
    /\ Cardinality(timers) <= 1
    /\ isTransitioning <=> timers # {}

C23_ModeChangeReportsCurrentMode ==
    controls.modeChanged # "none" => controls.modeAtChange = controls.modeChanged

\* no transition is running and every click handler has returned
Quiescent ==
    /\ ~isTransitioning
    /\ timers = {}
    /\ \A i \in 1..Len(calls) : calls[i].promise = "resolved"

\* C24: when no transition is running and no click handler is waiting, the
\* mode of the latest call of onModeChange, if there was one, is currentMode
C24_LastReportIsCurrentMode ==
    (Quiescent /\ controls.modeChanged # "none") =>
        controls.modeChanged = controls.currentMode

\* at rest after a click was dropped during a transition that switched the mode
C24_Witness ==
    /\ Quiescent
    /\ controls.modeChanged # "none"
    /\ \E i, j \in 1..Len(calls) :
        /\ i < j
        /\ calls[i].invoked = 1
        /\ calls[j].invoked = 0
        /\ calls[j].mode # calls[i].mode

\* C26: after every call of switchMode(m), btn-m is the one mode button that
\* carries 'active', currentMode is m, and a panel is hidden exactly if its
\* key is not m
C26_SwitchModeSetsButtonsAndPanels ==
    [][ controls'.switched # "none" =>
            LET m == controls'.switched
            IN  /\ controls'.active = {m}
                /\ controls'.currentMode = m
                /\ \A key \in Modes : key \in controls'.hidden <=> key # m ]_vars

\* switchMode has run at the midpoint of a transition and moved 'active'
C26_Witness ==
    /\ lastCall.op = "closeTimeout"
    /\ controls.switched = "particles"
    /\ controls.active = {"particles"}
    /\ controls.hidden = {"electrostatic", "waves"}

\* the options a DialSlider was constructed with give a min below the max
MinBelowMax(d) ==
    /\ d.given.min.kind = "finite"
    /\ d.given.max.kind = "finite"
    /\ d.given.min.value < d.given.max.value

\* C27: a DialSlider constructed with options whose min is below their max has
\* min <= value <= max in every state, from its construction on
C27_ValueWithinMinAndMax ==
    (dial.built /\ MinBelowMax(dial)) =>
        (dial.min <= dial.value /\ dial.value <= dial.max)

\* the steps in which the user moves the thumb of the dial
UserChange == lastCall'.op \in {"drag", "handleTrackClick", "handleKeyboard"}

\* C28: whenever a drag, a click on the track or a key changes the value of a
\* dial that was made by upgradeToDialSlider, onParameterChange is called with
\* the id of the range input and the new value
C28_UserChangeIsReported ==
    [][ (UserChange /\ dial.rangeInput.id # "none" /\ dial'.value # dial.value) =>
            dial'.reported = [id |-> dial.rangeInput.id, value |-> dial'.value] ]_vars

\* C29: update() returns whatever scale setScale was given, 0 and negative
\* scales included, on a canvas wider and higher than twice the track width:
\* every pass of a tick loop brings the loop variable closer to the bound it
\* is tested against, so that the test fails after finitely many passes
C29_EveryTickApproachesTheBound ==
    [][ lastCall'.op = "drawTick" => Remaining(calipers') < Remaining(calipers) ]_vars

====
